---- MODULE Spec2Model ----
(***************************************************************************)
(* A model of computeSales.py: the validation-and-aggregation pipeline     *)
(* (build_price_map, compute_sale_total, compute_all_sales), the report    *)
(* (print_and_write_results) and the control flow of main.                 *)
(*                                                                         *)
(* Parsed JSON values are tagged records [k |-> kind, v |-> payload].      *)
(* Python floats are kept exactly: a finite float is a number of quarters  *)
(* (v = 4 * value, every such value and every sum and product of them in   *)
(* the bounds is exact in binary floating point), and nan and +-inf are    *)
(* values of their own.  A Python int outside the range of a float         *)
(* (10**400) is the kind "hugeint".  Text is a sequence of one-character   *)
(* strings.                                                                *)
(***************************************************************************)
EXTENDS Integers, Sequences, FiniteSets, TLC

VARIABLES
    pc,             \* position of the single thread of control
    stack,          \* the callers of the running function, outermost first
    argv_len,       \* len(sys.argv)
    catalogue_data, \* main: parsed catalogue file; build_price_map: its argument
    sales_data,     \* main: parsed sales file; compute_all_sales: its argument
    price_map,      \* the dict title -> price
    errors,         \* the shared list of error messages
    cat_idx,        \* build_price_map: idx of the loop
    sale_index,     \* compute_all_sales: loop index; compute_sale_total: its argument
    items,          \* compute_sale_total: its first argument
    item_idx,       \* compute_sale_total: idx of the loop
    total,          \* compute_sale_total: total
    item_count,     \* compute_sale_total: item_count
    results,        \* compute_all_sales: results
    console,        \* what was written to standard output
    out_file,       \* SalesResults.txt
    write_result,   \* how the write of SalesResults.txt ended
    exit_status,    \* the status of the process, -1 while it runs
    exc,            \* the exception that is propagating, "none" if none
    mark            \* Len(errors) at the entry of each function, -1 before (history)

vars == <<pc, stack, argv_len, catalogue_data, sales_data, price_map, errors,
          cat_idx, sale_index, items, item_idx, total, item_count, results,
          console, out_file, write_result, exit_status, exc, mark>>

-----------------------------------------------------------------------------
(* Parsed JSON values as json.load yields them.                            *)

Null == [k |-> "null", v |-> 0]
JBool(b) == [k |-> "bool", v |-> IF b THEN 1 ELSE 0]
JInt(n) == [k |-> "int", v |-> n]
HugeInt(sign) == [k |-> "hugeint", v |-> sign]
FFin(q) == [k |-> "float", v |-> q]
FNaN == [k |-> "nan", v |-> 0]
FInf(sign) == [k |-> "inf", v |-> sign]
JStr(s) == [k |-> "str", v |-> s]
JList(l) == [k |-> "list", v |-> l]
JDict(d) == [k |-> "dict", v |-> d]

IsList(x) == x.k = "list"
IsDict(x) == x.k = "dict"
IsNone(x) == x.k = "null"

\* dict.get(key): None when the key is absent
Get(d, key) == IF key \in DOMAIN d.v THEN d.v[key] ELSE Null

-----------------------------------------------------------------------------
(* Text.                                                                   *)

DigitChars == <<"0", "1", "2", "3", "4", "5", "6", "7", "8", "9">>
IsDigit(c) == \E i \in 1..10 : DigitChars[i] = c
DigitVal(c) == (CHOOSE i \in 1..10 : DigitChars[i] = c) - 1
IsSpace(c) == c \in {" ", "\t", "\n"}

RECURSIVE LStrip(_)
LStrip(s) == IF s # <<>> /\ IsSpace(Head(s)) THEN LStrip(Tail(s)) ELSE s

RECURSIVE RStrip(_)
RStrip(s) ==
    IF s # <<>> /\ IsSpace(s[Len(s)]) THEN RStrip(SubSeq(s, 1, Len(s) - 1)) ELSE s

\* str.strip()
Strip(s) == RStrip(LStrip(s))

RECURSIVE NatToChars(_)
NatToChars(n) ==
    IF n < 10 THEN <<DigitChars[n + 1]>>
    ELSE NatToChars(n \div 10) \o <<DigitChars[(n % 10) + 1]>>

IntToChars(n) == IF n < 0 THEN <<"-">> \o NatToChars(-n) ELSE NatToChars(n)

\* str(x) of a title or a product that is text, an int or a bool
PyStr(x) ==
    CASE x.k = "str" -> x.v
      [] x.k = "int" -> IntToChars(x.v)
      [] x.k = "bool" -> IF x.v = 1 THEN <<"T", "r", "u", "e">>
                         ELSE <<"F", "a", "l", "s", "e">>

AllDigits(s) == s # <<>> /\ \A i \in 1..Len(s) : IsDigit(s[i])

RECURSIVE DigitsVal(_)
DigitsVal(s) ==
    IF s = <<>> THEN 0
    ELSE 10 * DigitsVal(SubSeq(s, 1, Len(s) - 1)) + DigitVal(s[Len(s)])

RECURSIVE Pow10(_)
Pow10(n) == IF n = 0 THEN 1 ELSE 10 * Pow10(n - 1)

HasSign(s) == s # <<>> /\ Head(s) \in {"+", "-"}
Unsigned(s) == IF HasSign(s) THEN Tail(s) ELSE s
SignOf(s) == IF s # <<>> /\ Head(s) = "-" THEN -1 ELSE 1

-----------------------------------------------------------------------------
(* int(x) and float(x).  A result is [exc, val]: exc is "none" or the      *)
(* exception the conversion raises.                                        *)

Ok(val) == [exc |-> "none", val |-> val]
Raises(e) == [exc |-> e, val |-> Null]

\* int(text): surrounding whitespace, an optional sign, decimal digits
IntOfText(s) ==
    LET t == Strip(s)
        u == Unsigned(t)
    IN  IF AllDigits(u) THEN Ok(JInt(SignOf(t) * DigitsVal(u)))
        ELSE Raises("ValueError")

\* int(float): truncation toward zero
Trunc(q) == IF q >= 0 THEN q \div 4 ELSE -((-q) \div 4)

PyInt(x) ==
    CASE x.k = "int" -> Ok(x)
      [] x.k = "hugeint" -> Ok(x)
      [] x.k = "bool" -> Ok(JInt(x.v))
      [] x.k = "float" -> Ok(JInt(Trunc(x.v)))
      [] x.k = "nan" -> Raises("ValueError")
      [] x.k = "inf" -> Raises("OverflowError")
      [] x.k = "str" -> IntOfText(x.v)
      [] OTHER -> Raises("TypeError")

\* float(text): surrounding whitespace, an optional sign, then nan, inf or
\* digits with an optional fraction (fractions that are quarters are exact)
FloatOfText(s) ==
    LET t == Strip(s)
        u == Unsigned(t)
        dot == {i \in 1..Len(u) : u[i] = "."}
        p == IF dot = {} THEN Len(u) + 1 ELSE CHOOSE i \in dot : TRUE
        ip == SubSeq(u, 1, p - 1)
        fp == SubSeq(u, p + 1, Len(u))
        wellFormed == /\ Cardinality(dot) <= 1
                      /\ ip # <<>> \/ fp # <<>>
                      /\ ip = <<>> \/ AllDigits(ip)
                      /\ fp = <<>> \/ AllDigits(fp)
    IN  IF u = <<"n", "a", "n">> THEN Ok(FNaN)
        ELSE IF u = <<"i", "n", "f">> THEN Ok(FInf(SignOf(t)))
        ELSE IF wellFormed
             THEN Ok(FFin(SignOf(t) *
                          (4 * DigitsVal(ip) + (4 * DigitsVal(fp)) \div Pow10(Len(fp)))))
        ELSE Raises("ValueError")

PyFloat(x) ==
    CASE x.k = "int" -> Ok(FFin(4 * x.v))
      [] x.k = "hugeint" -> Raises("OverflowError")
      [] x.k = "bool" -> Ok(FFin(4 * x.v))
      [] x.k \in {"float", "nan", "inf"} -> Ok(x)
      [] x.k = "str" -> FloatOfText(x.v)
      [] OTHER -> Raises("TypeError")

\* f < 0 on floats: false for nan
FloatNegative(f) ==
    CASE f.k = "float" -> f.v < 0
      [] f.k = "inf" -> f.v < 0
      [] f.k = "nan" -> FALSE

\* qty < 0 on ints
IntNegative(n) == n.v < 0

\* float * int: the int is converted to a float first
FloatTimesInt(f, n) ==
    IF n.k = "hugeint" THEN Raises("OverflowError")
    ELSE CASE f.k = "nan" -> Ok(FNaN)
           [] f.k = "inf" -> IF n.v = 0 THEN Ok(FNaN)
                             ELSE Ok(FInf(IF n.v > 0 THEN f.v ELSE -f.v))
           [] f.k = "float" -> Ok(FFin(f.v * n.v))

\* float + float
FloatAdd(a, b) ==
    CASE a.k = "nan" \/ b.k = "nan" -> FNaN
      [] a.k = "inf" /\ b.k = "inf" -> IF a.v = b.v THEN a ELSE FNaN
      [] a.k = "inf" -> a
      [] b.k = "inf" -> b
      [] OTHER -> FFin(a.v + b.v)

-----------------------------------------------------------------------------
(* Error messages.  A message is kept as its scope, the indices it names   *)
(* and its wording; the title or product it quotes is left out.            *)

TopErr(scope, msg) == [scope |-> scope, idx |-> -1, item |-> -1, msg |-> msg]
CatErr(idx, msg) == [scope |-> "catalogue", idx |-> idx, item |-> -1, msg |-> msg]
SaleErr(sale, msg) == [scope |-> "sale", idx |-> sale, item |-> -1, msg |-> msg]
ItemErr(sale, idx, msg) == [scope |-> "sale", idx |-> sale, item |-> idx, msg |-> msg]

\* errors.append(e) forgotten: the list is left as it was
AppendErrorLost(errs, e) == errs

\* errors.insert(0, e) in the place of errors.append(e)
AppendErrorFront(errs, e) == <<e>> \o errs

\* errors.append(e)
AppendError(errs, e) == Append(errs, e)

-----------------------------------------------------------------------------
(* build_price_map                                                         *)

EmptyMap == <<>>

\* price_map[key] = val
StorePrice(pm, key, val) == [x \in DOMAIN pm \cup {key} |-> IF x = key THEN val ELSE pm[x]]

Error(e) == [kind |-> "error", err |-> e, key |-> <<>>, val |-> Null, exc |-> "none"]
Store(key, val) == [kind |-> "store", err |-> Null, key |-> key, val |-> val, exc |-> "none"]
Add(val) == [kind |-> "add", err |-> Null, key |-> <<>>, val |-> val, exc |-> "none"]
Raise(e) == [kind |-> "raise", err |-> Null, key |-> <<>>, val |-> Null, exc |-> e]

\* the handlers of the two try blocks
Caught(e) == e \in {"TypeError", "ValueError"}

\* one iteration of the loop over the catalogue
EntryOutcome(entry, idx) ==
    IF ~IsDict(entry)
    THEN Error(CatErr(idx, "expected object, got invalid type."))
    ELSE LET title == Get(entry, "title")
             price == Get(entry, "price")
             price_float == PyFloat(price)
         IN  IF IsNone(title) \/ IsNone(price)
             THEN Error(CatErr(idx, "missing 'title' or 'price'."))
             ELSE IF price_float.exc # "none"
             THEN IF Caught(price_float.exc)
                  THEN Error(CatErr(idx, "invalid price"))
                  ELSE Raise(price_float.exc)
             ELSE IF FloatNegative(price_float.val)
             THEN Error(CatErr(idx, "negative price"))
             ELSE Store(Strip(PyStr(title)), price_float.val)

-----------------------------------------------------------------------------
(* compute_sale_total                                                      *)

\* one iteration of the loop over the line items
ItemOutcome(line_item, pm, sale, idx) ==
    IF ~IsDict(line_item)
    THEN Error(ItemErr(sale, idx, "expected object."))
    ELSE LET product == Get(line_item, "product")
             quantity == Get(line_item, "quantity")
             qty == PyInt(quantity)
             product_key == Strip(PyStr(product))
             amount == FloatTimesInt(pm[product_key], qty.val)
         IN  IF IsNone(product) \/ IsNone(quantity)
             THEN Error(ItemErr(sale, idx, "missing 'product' or 'quantity'."))
             ELSE IF qty.exc # "none"
             THEN IF Caught(qty.exc)
                  THEN Error(ItemErr(sale, idx, "invalid quantity"))
                  ELSE Raise(qty.exc)
             ELSE IF IntNegative(qty.val)
             THEN Error(ItemErr(sale, idx, "negative quantity"))
             ELSE IF product_key \notin DOMAIN pm
             THEN Error(ItemErr(sale, idx, "not in catalogue."))
             ELSE IF amount.exc # "none"
             THEN Raise(amount.exc)
             ELSE Add(amount.val)

-----------------------------------------------------------------------------
(* compute_all_sales                                                       *)

\* the pair appended to results
SaleResult(index, sale_total) == <<index, sale_total>>

-----------------------------------------------------------------------------
(* print_and_write_results.  A line is a sequence of pieces of text; the   *)
(* text is the lines joined by "\n".                                       *)

Banner == "============================================================"
Rule == "------------------------------------------------------------"

\* f"{value:.2f}"
format_currency(value) ==
    CASE value.k = "nan" -> <<"nan">>
      [] value.k = "inf" -> IF value.v > 0 THEN <<"inf">> ELSE <<"-inf">>
      [] value.k = "float" ->
            LET a == IF value.v < 0 THEN -value.v ELSE value.v
            IN  (IF value.v < 0 THEN <<"-">> ELSE <<>>)
                \o NatToChars(a \div 4) \o <<".">>
                \o (CASE a % 4 = 0 -> <<"0", "0">>
                      [] a % 4 = 1 -> <<"2", "5">>
                      [] a % 4 = 2 -> <<"5", "0">>
                      [] a % 4 = 3 -> <<"7", "5">>)

RECURSIVE Pad(_, _)
Pad(s, n) == IF Len(s) >= n THEN s ELSE Pad(<<"0">> \o s, n)

\* f"{elapsed_time:.6f}", the time in microseconds
FormatElapsed(us) ==
    NatToChars(us \div 1000000) \o <<".">> \o Pad(NatToChars(us % 1000000), 6)

ErrText(e) ==
    <<e.scope>>
    \o (IF e.idx >= 0 THEN <<" ">> \o IntToChars(e.idx) ELSE <<>>)
    \o (IF e.item >= 0 THEN <<", item ">> \o IntToChars(e.item) ELSE <<>>)
    \o <<": ", e.msg>>

\* sum(total for _, total in sale_results)
RECURSIVE SumTotals(_)
SumTotals(rs) ==
    IF rs = <<>> THEN FFin(0)
    ELSE FloatAdd(SumTotals(SubSeq(rs, 1, Len(rs) - 1)), rs[Len(rs)][2])

ReportLines(sale_results, grand_total, elapsed_time, errs) ==
    <<<<Banner>>, <<"SALES RESULTS">>, <<Banner>>, <<>>>>
    \o (IF errs # <<>>
        THEN <<<<"WARNINGS / INVALID DATA (execution continued):">>, <<Rule>>>>
             \o [i \in 1..Len(errs) |-> <<"  - ">> \o ErrText(errs[i])]
             \o <<<<>>, <<Rule>>, <<>>>>
        ELSE <<>>)
    \o <<<<"SALE BREAKDOWN">>, <<Rule>>>>
    \o [i \in 1..Len(sale_results) |->
            <<"  Sale #">> \o IntToChars(sale_results[i][1]) \o <<": ">>
            \o format_currency(sale_results[i][2])]
    \o <<<<Rule>>,
         <<"GRAND TOTAL: ">> \o format_currency(grand_total),
         <<>>,
         <<Banner>>,
         <<"Elapsed time: ">> \o FormatElapsed(elapsed_time) \o <<" seconds">>,
         <<Banner>>>>

\* "\n".join(lines)
RECURSIVE Join(_)
Join(lines) ==
    IF lines = <<>> THEN <<>>
    ELSE IF Len(lines) = 1 THEN lines[1]
    ELSE lines[1] \o <<"\n">> \o Join(Tail(lines))

\* print(text): the text and the line end print adds
PyPrint(out, text) == out \o text \o <<"\n">>

\* f.write(text)
WriteFile(text) == [present |-> TRUE, text |-> text]

-----------------------------------------------------------------------------
(* Calls, returns and exceptions.                                          *)

OUTPUT_FILENAME == "SalesResults.txt"

Pop(st) == SubSeq(st, 1, Len(st) - 1)
InMain == stack # <<>> /\ stack[1] = "main"

\* an exception no handler catches leaves every frame; under main the
\* interpreter ends the process with status 1
Propagate(e) ==
    /\ pc' = "raised"
    /\ exc' = e
    /\ stack' = <<>>
    /\ exit_status' = IF InMain THEN 1 ELSE exit_status

-----------------------------------------------------------------------------
(* build_price_map(catalogue_data, errors)                                 *)

BpmEnter ==
    /\ pc = "bpm_enter"
    /\ price_map' = EmptyMap
    /\ mark' = [mark EXCEPT !.bpm = Len(errors)]
    /\ cat_idx' = 0
    /\ IF ~IsList(catalogue_data)
       THEN /\ errors' = AppendError(errors,
                            TopErr("catalogue", "must be a JSON array of products."))
            /\ pc' = "bpm_return"
       ELSE /\ errors' = errors
            /\ pc' = IF Len(catalogue_data.v) = 0 THEN "bpm_return" ELSE "bpm_loop"
    /\ UNCHANGED <<stack, argv_len, catalogue_data, sales_data, sale_index, items,
                   item_idx, total, item_count, results, console, out_file,
                   write_result, exit_status, exc>>

BpmEntry ==
    /\ pc = "bpm_loop"
    /\ LET o == EntryOutcome(catalogue_data.v[cat_idx + 1], cat_idx)
       IN  IF o.kind = "raise"
           THEN /\ Propagate(o.exc)
                /\ UNCHANGED <<errors, price_map, cat_idx>>
           ELSE /\ errors' = IF o.kind = "error" THEN AppendError(errors, o.err)
                             ELSE errors
                /\ price_map' = IF o.kind = "store"
                                THEN StorePrice(price_map, o.key, o.val)
                                ELSE price_map
                /\ cat_idx' = cat_idx + 1
                /\ pc' = IF cat_idx + 1 = Len(catalogue_data.v) THEN "bpm_return"
                         ELSE "bpm_loop"
                /\ UNCHANGED <<stack, exit_status, exc>>
    /\ UNCHANGED <<argv_len, catalogue_data, sales_data, sale_index, items, item_idx,
                   total, item_count, results, console, out_file, write_result, mark>>

BpmReturn ==
    /\ pc = "bpm_return"
    /\ stack' = Pop(stack)
    /\ pc' = IF Pop(stack) = <<>> THEN "done" ELSE "main_check"
    /\ UNCHANGED <<argv_len, catalogue_data, sales_data, price_map, errors, cat_idx,
                   sale_index, items, item_idx, total, item_count, results, console,
                   out_file, write_result, exit_status, exc, mark>>

-----------------------------------------------------------------------------
(* compute_sale_total(items, price_map, sale_index, errors)                *)

CstEnter ==
    /\ pc = "cst_enter"
    /\ total' = FFin(0)
    /\ item_count' = 0
    /\ item_idx' = 0
    /\ mark' = [mark EXCEPT !.cst = Len(errors)]
    /\ IF ~IsList(items)
       THEN /\ errors' = AppendError(errors, SaleErr(sale_index, "'items' must be an array."))
            /\ pc' = "cst_return"
       ELSE /\ errors' = errors
            /\ pc' = IF Len(items.v) = 0 THEN "cst_return" ELSE "cst_loop"
    /\ UNCHANGED <<stack, argv_len, catalogue_data, sales_data, price_map, cat_idx,
                   sale_index, items, results, console, out_file, write_result,
                   exit_status, exc>>

CstItem ==
    /\ pc = "cst_loop"
    /\ LET o == ItemOutcome(items.v[item_idx + 1], price_map, sale_index, item_idx)
       IN  IF o.kind = "raise"
           THEN /\ Propagate(o.exc)
                /\ UNCHANGED <<errors, total, item_count, item_idx>>
           ELSE /\ errors' = IF o.kind = "error" THEN AppendError(errors, o.err)
                             ELSE errors
                /\ total' = IF o.kind = "add" THEN FloatAdd(total, o.val) ELSE total
                /\ item_count' = IF o.kind = "add" THEN item_count + 1 ELSE item_count
                /\ item_idx' = item_idx + 1
                /\ pc' = IF item_idx + 1 = Len(items.v) THEN "cst_return" ELSE "cst_loop"
                /\ UNCHANGED <<stack, exit_status, exc>>
    /\ UNCHANGED <<argv_len, catalogue_data, sales_data, price_map, cat_idx,
                   sale_index, items, results, console, out_file, write_result, mark>>

\* the return; in compute_all_sales the pair (sale_index, sale_total) is
\* appended to results and the loop over the sales goes on
CstReturn ==
    /\ pc = "cst_return"
    /\ stack' = Pop(stack)
    /\ IF Pop(stack) = <<>>
       THEN /\ pc' = "done"
            /\ UNCHANGED <<results, sale_index>>
       ELSE /\ results' = Append(results, SaleResult(sale_index, total))
            /\ sale_index' = sale_index + 1
            /\ pc' = IF sale_index + 1 = Len(sales_data.v) THEN "cas_return"
                     ELSE "cas_loop"
    /\ UNCHANGED <<argv_len, catalogue_data, sales_data, price_map, errors, cat_idx,
                   items, item_idx, total, item_count, console, out_file,
                   write_result, exit_status, exc, mark>>

-----------------------------------------------------------------------------
(* compute_all_sales(sales_data, price_map, errors)                        *)

CasEnter ==
    /\ pc = "cas_enter"
    /\ results' = <<>>
    /\ sale_index' = 0
    /\ mark' = [mark EXCEPT !.cas = Len(errors)]
    /\ IF ~IsList(sales_data)
       THEN /\ errors' = AppendError(errors,
                            TopErr("sale", "Sales record must be a JSON array of sales."))
            /\ pc' = "cas_return"
       ELSE /\ errors' = errors
            /\ pc' = IF Len(sales_data.v) = 0 THEN "cas_return" ELSE "cas_loop"
    /\ UNCHANGED <<stack, argv_len, catalogue_data, sales_data, price_map, cat_idx,
                   items, item_idx, total, item_count, console, out_file,
                   write_result, exit_status, exc>>

\* one iteration of the loop over the sales, up to the call of
\* compute_sale_total
CasSale ==
    /\ pc = "cas_loop"
    /\ LET sale == sales_data.v[sale_index + 1]
           bad == ~IsDict(sale) \/ IsNone(Get(sale, "items"))
       IN  IF bad
           THEN /\ errors' = AppendError(errors,
                                SaleErr(sale_index,
                                        IF ~IsDict(sale)
                                        THEN "expected object, got invalid type."
                                        ELSE "missing 'items'."))
                /\ sale_index' = sale_index + 1
                /\ pc' = IF sale_index + 1 = Len(sales_data.v) THEN "cas_return"
                         ELSE "cas_loop"
                /\ UNCHANGED <<stack, items>>
           ELSE /\ items' = Get(sale, "items")
                /\ stack' = Append(stack, "compute_sale_total")
                /\ pc' = "cst_enter"
                /\ UNCHANGED <<errors, sale_index>>
    /\ UNCHANGED <<argv_len, catalogue_data, sales_data, price_map, cat_idx, item_idx,
                   total, item_count, results, console, out_file, write_result,
                   exit_status, exc, mark>>

CasReturn ==
    /\ pc = "cas_return"
    /\ stack' = Pop(stack)
    /\ pc' = IF Pop(stack) = <<>> THEN "done" ELSE "main_report"
    /\ UNCHANGED <<argv_len, catalogue_data, sales_data, price_map, errors, cat_idx,
                   sale_index, items, item_idx, total, item_count, results, console,
                   out_file, write_result, exit_status, exc, mark>>

-----------------------------------------------------------------------------
(* load_json_file(filepath).  The state of a file is what open and         *)
(* json.load do with it: "ok" with the parsed data, or the exception.      *)

FileOk(data) == [state |-> "ok", data |-> data]
FileFails(e) == [state |-> e, data |-> Null]

\* the exceptions load_json_file turns into an error message
LoadHandled == {"FileNotFoundError", "JSONDecodeError", "OSError"}

\* (data, error message), or the exception it lets through
load_json_file(f) ==
    IF f.state = "ok" THEN [data |-> f.data, err |-> <<>>, exc |-> "none"]
    ELSE IF f.state \in LoadHandled
    THEN [data |-> Null, err |-> <<"Error: ", f.state>>, exc |-> "none"]
    ELSE [data |-> Null, err |-> <<>>, exc |-> f.state]

-----------------------------------------------------------------------------
(* The inputs.  Bounds on the lengths of the lists that are enumerated:    *)

MaxCatalogue == 3
MaxItems == 3
MaxSales == 2

SeqsUpTo(S, n) == UNION {[1..m -> S] : m \in 0..n}

A == <<"A">>
APadded == <<" ", "A", " ">>
B == <<"B">>
Z == <<"Z">>

Entry(title, price) == JDict([title |-> title, price |-> price])
Item(product, quantity) == JDict([product |-> product, quantity |-> quantity])
Sale(its) == JDict([items |-> its])

\* catalogue entries: every branch of the loop of build_price_map
CatalogueEntries ==
    { JInt(5),
      JDict([title |-> JStr(A)]),
      Entry(Null, JInt(1)),
      Entry(JStr(A), JInt(2)),
      Entry(JStr(APadded), JStr(<<"2", ".", "5">>)),
      Entry(JStr(A), JInt(-1)),
      Entry(JStr(B), JStr(<<"a", "b", "c">>)),
      Entry(JStr(B), JStr(<<"n", "a", "n">>)),
      Entry(JStr(B), HugeInt(1)),
      Entry(JStr(B), JList(<<>>)),
      Entry(JStr(B), FInf(1)),
      Entry(JStr(B), JBool(TRUE)),
      Entry(JInt(7), FFin(5)) }

\* what build_price_map is given: a value that is no list, or a list
CatalogueInputs ==
    {Null, JStr(A)} \cup {JList(l) : l \in SeqsUpTo(CatalogueEntries, MaxCatalogue)}

\* line items: every branch of the loop of compute_sale_total
LineItems ==
    { JStr(A),
      JDict([product |-> JStr(A)]),
      Item(JStr(A), JInt(2)),
      Item(JStr(APadded), JStr(<<" ", "3">>)),
      Item(JStr(A), JInt(-1)),
      Item(JStr(A), JStr(<<"4", ".", "0">>)),
      Item(JStr(Z), JInt(1)),
      Item(JStr(Z), JStr(<<"a", "b", "c">>)),
      Item(JStr(A), FFin(11)),
      Item(JStr(A), FInf(1)),
      Item(JStr(B), HugeInt(1)),
      Item(JStr(B), JInt(0)),
      Item(JInt(7), JBool(TRUE)) }

ItemsInputs ==
    {JStr(A), JInt(3)} \cup {JList(l) : l \in SeqsUpTo(LineItems, MaxItems)}

\* price tables compute_sale_total is given, as build_price_map builds them
PriceMaps ==
    { StorePrice(StorePrice(EmptyMap, A, FFin(10)), <<"7">>, FFin(1)),
      StorePrice(StorePrice(EmptyMap, A, FFin(8)), B, FInf(1)) }

\* errors recorded before the call
PriorErrors == {<<>>, <<CatErr(0, "invalid price")>>}

\* the parsed catalogue files of a run
Catalogues ==
    { JDict([title |-> JStr(A), price |-> JInt(2)]),
      JList(<<Entry(JStr(A), JInt(-1))>>),
      JList(<<Entry(JStr(A), JInt(2)), Entry(JStr(B), JStr(<<"a", "b", "c">>))>>),
      JList(<<JInt(5), Entry(JStr(APadded), JStr(<<"2", ".", "5">>)),
              Entry(JStr(B), JBool(TRUE))>>),
      JList(<<Entry(JStr(A), JInt(2)), Entry(JStr(B), HugeInt(1))>>),
      JList(<<Entry(JStr(A), JInt(2)), Entry(JStr(B), JStr(<<"n", "a", "n">>))>>) }

\* the sales of a run
Sales ==
    { JInt(9),
      JDict([id |-> JInt(1)]),
      Sale(Null),
      Sale(JStr(A)),
      Sale(JList(<<>>)),
      Sale(JList(<<Item(JStr(A), JInt(2)), Item(JStr(Z), JInt(1))>>)),
      Sale(JList(<<Item(JStr(A), JInt(-1)), JStr(A)>>)),
      Sale(JList(<<Item(JStr(B), JInt(1)), Item(JStr(A), FInf(1))>>)),
      Sale(JList(<<Item(JStr(A), JInt(2)), Item(JStr(APadded), JStr(<<" ", "3">>))>>)) }

SalesInputs ==
    {JDict([items |-> JList(<<>>)])} \cup {JList(l) : l \in SeqsUpTo(Sales, MaxSales)}

LoadFailures ==
    {"FileNotFoundError", "JSONDecodeError", "OSError", "UnicodeDecodeError"}

CatalogueFiles == {FileOk(d) : d \in Catalogues} \cup {FileFails(e) : e \in LoadFailures}
SalesFiles == {FileOk(d) : d \in SalesInputs} \cup {FileFails(e) : e \in LoadFailures}

\* elapsed wall-clock times, in microseconds
ElapsedTimes == {12, 1500000}

WriteOutcomes == {"ok", "open_failed", "write_failed"}

-----------------------------------------------------------------------------
(* main                                                                    *)

MainArgs ==
    /\ pc = "main_args"
    /\ errors' = <<>>
    /\ IF argv_len # 3
       THEN /\ console' = PyPrint(console,
                   <<"Usage: python computeSales.py priceCatalogue.json salesRecord.json">>)
            /\ exit_status' = 1
            /\ pc' = "exited"
       ELSE /\ pc' = "load_catalogue"
            /\ UNCHANGED <<console, exit_status>>
    /\ UNCHANGED <<stack, argv_len, catalogue_data, sales_data, price_map, cat_idx,
                   sale_index, items, item_idx, total, item_count, results, out_file,
                   write_result, exc, mark>>

\* after a load: the exception, the printed error and exit 1, or the data
Loaded(r, next) ==
    IF r.exc # "none"
    THEN /\ Propagate(r.exc)
         /\ UNCHANGED console
    ELSE IF r.err # <<>>
    THEN /\ console' = PyPrint(console, r.err)
         /\ exit_status' = 1
         /\ pc' = "exited"
         /\ UNCHANGED <<stack, exc>>
    ELSE /\ pc' = next
         /\ stack' = IF next = "bpm_enter" THEN Append(stack, "build_price_map") ELSE stack
         /\ UNCHANGED <<console, exit_status, exc>>

LoadCatalogue ==
    /\ pc = "load_catalogue"
    /\ \E f \in CatalogueFiles :
          LET r == load_json_file(f)
          IN  /\ Loaded(r, "load_sales")
              /\ catalogue_data' = r.data
    /\ UNCHANGED <<argv_len, sales_data, price_map, errors, cat_idx, sale_index, items,
                   item_idx, total, item_count, results, out_file, write_result, mark>>

\* the load of the sales file and, when it succeeds, the call of
\* build_price_map
LoadSales ==
    /\ pc = "load_sales"
    /\ \E f \in SalesFiles :
          LET r == load_json_file(f)
          IN  /\ Loaded(r, "bpm_enter")
              /\ sales_data' = r.data
    /\ UNCHANGED <<argv_len, catalogue_data, price_map, errors, cat_idx, sale_index,
                   items, item_idx, total, item_count, results, out_file, write_result,
                   mark>>

\* if not price_map: exit 1; otherwise the call of compute_all_sales
MainCheck ==
    /\ pc = "main_check"
    /\ IF price_map = EmptyMap
       THEN /\ console' = PyPrint(console,
                   <<"No valid products in catalogue. Cannot compute sales.">>)
            /\ exit_status' = 1
            /\ pc' = "exited"
            /\ UNCHANGED stack
       ELSE /\ pc' = "cas_enter"
            /\ stack' = Append(stack, "compute_all_sales")
            /\ UNCHANGED <<console, exit_status>>
    /\ UNCHANGED <<argv_len, catalogue_data, sales_data, price_map, errors, cat_idx,
                   sale_index, items, item_idx, total, item_count, results, out_file,
                   write_result, exc, mark>>

\* the grand total, the elapsed time and print_and_write_results; the write
\* succeeds, or open fails, or the write fails after open emptied the file
MainReport ==
    /\ pc = "main_report"
    /\ \E elapsed_time \in ElapsedTimes, w \in WriteOutcomes :
          LET grand_total == SumTotals(results)
              text == Join(ReportLines(results, grand_total, elapsed_time, errors))
              shown == PyPrint(console, text)
          IN  /\ console' = IF w = "ok" THEN shown
                            ELSE PyPrint(shown, <<"Error writing results to '",
                                                  OUTPUT_FILENAME, "': ", w>>)
              /\ out_file' = CASE w = "ok" -> WriteFile(text)
                               [] w = "open_failed" -> out_file
                               [] w = "write_failed" -> WriteFile(<<>>)
              /\ write_result' = w
    /\ exit_status' = 0
    /\ pc' = "exited"
    /\ stack' = <<>>
    /\ UNCHANGED <<argv_len, catalogue_data, sales_data, price_map, errors, cat_idx,
                   sale_index, items, item_idx, total, item_count, results, exc, mark>>

-----------------------------------------------------------------------------
(* The specifications.                                                     *)

NoFile == [present |-> FALSE, text |-> <<>>]
OldFile == [present |-> TRUE, text |-> <<"the results of an earlier run">>]

\* a run of the program
Init ==
    /\ pc = "main_args"
    /\ stack = <<"main">>
    /\ argv_len \in {2, 3}
    /\ catalogue_data = Null
    /\ sales_data = Null
    /\ price_map = EmptyMap
    /\ errors = <<>>
    /\ cat_idx = 0
    /\ sale_index = 0
    /\ items = Null
    /\ item_idx = 0
    /\ total = FFin(0)
    /\ item_count = 0
    /\ results = <<>>
    /\ console = <<>>
    /\ out_file \in {NoFile, OldFile}
    /\ write_result = "none"
    /\ exit_status = -1
    /\ exc = "none"
    /\ mark = [bpm |-> -1, cas |-> -1, cst |-> -1]

Next ==
    \/ MainArgs
    \/ LoadCatalogue
    \/ LoadSales
    \/ BpmEnter
    \/ BpmEntry
    \/ BpmReturn
    \/ MainCheck
    \/ CasEnter
    \/ CasSale
    \/ CstEnter
    \/ CstItem
    \/ CstReturn
    \/ CasReturn
    \/ MainReport

Spec == Init /\ [][Next]_vars

\* a call of build_price_map
InitCat ==
    /\ pc = "bpm_enter"
    /\ stack = <<"build_price_map">>
    /\ argv_len = 3
    /\ catalogue_data \in CatalogueInputs
    /\ sales_data = Null
    /\ price_map = EmptyMap
    /\ errors \in PriorErrors
    /\ cat_idx = 0
    /\ sale_index = 0
    /\ items = Null
    /\ item_idx = 0
    /\ total = FFin(0)
    /\ item_count = 0
    /\ results = <<>>
    /\ console = <<>>
    /\ out_file = NoFile
    /\ write_result = "none"
    /\ exit_status = -1
    /\ exc = "none"
    /\ mark = [bpm |-> -1, cas |-> -1, cst |-> -1]

NextCat == BpmEnter \/ BpmEntry \/ BpmReturn

SpecCat == InitCat /\ [][NextCat]_vars

\* a call of compute_sale_total
InitSale ==
    /\ pc = "cst_enter"
    /\ stack = <<"compute_sale_total">>
    /\ argv_len = 3
    /\ catalogue_data = Null
    /\ sales_data = Null
    /\ price_map \in PriceMaps
    /\ errors \in PriorErrors
    /\ cat_idx = 0
    /\ sale_index \in {0, 2}
    /\ items \in ItemsInputs
    /\ item_idx = 0
    /\ total = FFin(0)
    /\ item_count = 0
    /\ results = <<>>
    /\ console = <<>>
    /\ out_file = NoFile
    /\ write_result = "none"
    /\ exit_status = -1
    /\ exc = "none"
    /\ mark = [bpm |-> -1, cas |-> -1, cst |-> -1]

NextSale == CstEnter \/ CstItem \/ CstReturn

SpecSale == InitSale /\ [][NextSale]_vars

-----------------------------------------------------------------------------
(* What the contracts say of a catalogue and of a list of line items,      *)
(* stated over the whole input rather than step by step.                   *)

\* a price that is >= 0: nan is not
FloatNonNegative(f) ==
    CASE f.k = "float" -> f.v >= 0
      [] f.k = "inf" -> f.v > 0
      [] f.k = "nan" -> FALSE

\* a catalogue entry that is valid: a record with a title and a price, the
\* price coercible to a float that is not negative
ValidEntry(e) ==
    /\ IsDict(e)
    /\ ~IsNone(Get(e, "title"))
    /\ ~IsNone(Get(e, "price"))
    /\ PyFloat(Get(e, "price")).exc = "none"
    /\ LET f == PyFloat(Get(e, "price")).val
       IN  ~(f.k \in {"float", "inf"} /\ f.v < 0)

EntryKey(e) == Strip(PyStr(Get(e, "title")))
EntryPrice(e) == PyFloat(Get(e, "price")).val

\* the table of a catalogue: for each key the price of the last valid entry
ExpectedMap(l) ==
    LET valid == {i \in 1..Len(l) : ValidEntry(l[i])}
        keys == {EntryKey(l[i]) : i \in valid}
        last(key) == CHOOSE i \in valid :
                        /\ EntryKey(l[i]) = key
                        /\ \A j \in valid : EntryKey(l[j]) = key => j <= i
    IN  [key \in keys |-> EntryPrice(l[last(key)])]

\* the first check a line item fails, in the order of the contract
FirstFailure(it, pm) ==
    IF ~IsDict(it) THEN "expected object."
    ELSE IF IsNone(Get(it, "product")) \/ IsNone(Get(it, "quantity"))
    THEN "missing 'product' or 'quantity'."
    ELSE IF PyInt(Get(it, "quantity")).exc # "none" THEN "invalid quantity"
    ELSE IF PyInt(Get(it, "quantity")).val.v < 0 THEN "negative quantity"
    ELSE IF Strip(PyStr(Get(it, "product"))) \notin DOMAIN pm THEN "not in catalogue."
    ELSE "none"

\* a line item that contributes to the total
Contributes(it, pm) == FirstFailure(it, pm) = "none"

\* price[trim(product)] * quantity
Amount(it, pm) ==
    FloatTimesInt(pm[Strip(PyStr(Get(it, "product")))], PyInt(Get(it, "quantity")).val).val

RECURSIVE ExpectedTotal(_, _)
ExpectedTotal(l, pm) ==
    IF l = <<>> THEN FFin(0)
    ELSE LET before == ExpectedTotal(SubSeq(l, 1, Len(l) - 1), pm)
         IN  IF Contributes(l[Len(l)], pm) THEN FloatAdd(before, Amount(l[Len(l)], pm))
             ELSE before

ExpectedCount(l, pm) == Cardinality({i \in 1..Len(l) : Contributes(l[i], pm)})

\* the errors of the line items, by increasing index
RECURSIVE ExpectedItemErrors(_, _, _)
ExpectedItemErrors(l, pm, sale) ==
    IF l = <<>> THEN <<>>
    ELSE LET before == ExpectedItemErrors(SubSeq(l, 1, Len(l) - 1), pm, sale)
             f == FirstFailure(l[Len(l)], pm)
         IN  IF f = "none" THEN before
             ELSE Append(before, ItemErr(sale, Len(l) - 1, f))

\* the errors the running call has appended
AppendedSince(n) == SubSeq(errors, n + 1, Len(errors))

\* a sale that is a record with an items field that is not null
ValidSale(s) == IsDict(s) /\ ~IsNone(Get(s, "items"))

\* the results of a list of sales: one per valid sale, at its position
RECURSIVE ExpectedResults(_, _)
ExpectedResults(l, pm) ==
    IF l = <<>> THEN <<>>
    ELSE LET before == ExpectedResults(SubSeq(l, 1, Len(l) - 1), pm)
             s == l[Len(l)]
             its == Get(s, "items")
         IN  IF ValidSale(s)
             THEN Append(before,
                         <<Len(l) - 1,
                           IF IsList(its) THEN ExpectedTotal(its.v, pm) ELSE FFin(0)>>)
             ELSE before

Ended == pc \in {"done", "exited", "raised"}

-----------------------------------------------------------------------------
(* compute_sale_total, under SpecSale.                                     *)

InSaleLoop == pc \in {"cst_loop", "cst_return", "done", "raised"} /\ IsList(items)
Processed == SubSeq(items.v, 1, item_idx)

\* C1: for every items list and price table the call returns the sum of
\* price * quantity over exactly the contributing line items, and their number
C1_SaleTotal ==
    (Ended /\ IsList(items)) =>
        /\ pc = "done"
        /\ total = ExpectedTotal(items.v, price_map)
        /\ item_count = ExpectedCount(items.v, price_map)

\* what holds of C1 on every run: after each iteration the total and the count
\* are those of the items processed so far
SaleTotalOfProcessed ==
    InSaleLoop =>
        /\ total = ExpectedTotal(Processed, price_map)
        /\ item_count = ExpectedCount(Processed, price_map)

\* C10: each of the n line items appends exactly one error, that of its first
\* failing check, or adds to the total and the count; the errors appended plus
\* the count are n
C10_OneOutcomePerItem ==
    (Ended /\ IsList(items)) =>
        /\ pc = "done"
        /\ AppendedSince(mark.cst) = ExpectedItemErrors(items.v, price_map, sale_index)
        /\ Len(AppendedSince(mark.cst)) + item_count = Len(items.v)

\* what holds of C10 on every run: the same of the items processed so far
OutcomesOfProcessed ==
    InSaleLoop =>
        /\ AppendedSince(mark.cst) = ExpectedItemErrors(Processed, price_map, sale_index)
        /\ Len(AppendedSince(mark.cst)) + item_count = item_idx

-----------------------------------------------------------------------------
(* build_price_map, under SpecCat.                                         *)

\* C2: after build_price_map every stored price is >= 0 and is the numeric
\* value of the price of an entry with that title
C2_PricesNonNegative ==
    pc = "done" =>
        \A key \in DOMAIN price_map :
            /\ FloatNonNegative(price_map[key])
            /\ \E i \in 1..Len(catalogue_data.v) :
                  /\ ValidEntry(catalogue_data.v[i])
                  /\ EntryKey(catalogue_data.v[i]) = key
                  /\ EntryPrice(catalogue_data.v[i]) = price_map[key]

\* what holds of C2 on every run: no stored price is negative
NoNegativePrice ==
    \A key \in DOMAIN price_map : ~FloatNegative(price_map[key])

\* C6: for every catalogue sequence the call returns the table that maps the
\* trimmed title of each valid entry to the price of the last valid entry
\* with that title
C6_LastWriteWins ==
    (Ended /\ IsList(catalogue_data)) =>
        /\ pc = "done"
        /\ price_map = ExpectedMap(catalogue_data.v)

\* what holds of C6 on every run: the table is that of the entries processed
TableOfProcessed ==
    (pc \in {"bpm_loop", "bpm_return", "done", "raised"} /\ IsList(catalogue_data)) =>
        price_map = ExpectedMap(SubSeq(catalogue_data.v, 1, cat_idx))

-----------------------------------------------------------------------------
(* A run of the program, under Spec.                                       *)

OnConsole(piece) == \E i \in 1..Len(console) : console[i] = piece
LoadFailed == exc \in LoadFailures \/ OnConsole("Error: ")
EmptyTable == mark.bpm >= 0 /\ exc = "none" /\ price_map = EmptyMap
ReportShown == OnConsole("SALE BREAKDOWN")
SaleEvaluated == mark.cas >= 0

\* C3: the validation components never raise: the only exceptions of a run
\* are those of the load of the two files, and every run whose files load
\* and whose table is not empty reaches the report
C3_NeverRaises ==
    /\ exc # "none" => exc \in LoadFailures
    /\ (Ended /\ argv_len = 3 /\ ~LoadFailed /\ ~EmptyTable) => ReportShown

\* C4: for every sales input that is a sequence compute_all_sales returns one
\* result for each sale that is a record with a non-null items field, at the
\* position of the sale in the input, with total 0.0 when no item is priced
C4_SaleResults ==
    (Ended /\ mark.cas >= 0 /\ IsList(sales_data)) =>
        /\ pc = "exited"
        /\ results = ExpectedResults(sales_data.v, price_map)

\* what holds of C4 on every run: the results are those of the sales processed
ResultsOfProcessed ==
    (pc \in {"cas_loop", "cas_return", "main_report", "exited"}
        /\ mark.cas >= 0 /\ IsList(sales_data)) =>
        results = ExpectedResults(SubSeq(sales_data.v, 1, sale_index), price_map)

\* C5: a run ends with status 1 exactly when the argument count is wrong, a
\* file fails to load or the table is empty, and then evaluates no sale and
\* shows and writes no report; every other run shows the report and ends
\* with status 0
C5_ExitStatus ==
    Ended =>
        LET fatal == argv_len # 3 \/ LoadFailed \/ EmptyTable
        IN  /\ exit_status = 1 <=> fatal
            /\ fatal => ~SaleEvaluated /\ ~ReportShown /\ write_result = "none"
            /\ ~fatal => exit_status = 0 /\ ReportShown

\* what holds of C5 on every run that ends without an exception
ExitStatusOfExit ==
    pc = "exited" =>
        LET fatal == argv_len # 3 \/ LoadFailed \/ EmptyTable
        IN  /\ exit_status = 1 <=> fatal
            /\ fatal => ~SaleEvaluated /\ ~ReportShown /\ write_result = "none"
            /\ ~fatal => exit_status = 0 /\ ReportShown

\* C9: when the results file is written, what the console received and the
\* content of the file are the same bytes
C9_ConsoleEqualsFile ==
    write_result = "ok" => console = out_file.text

\* what holds of C9: the console received the content of the file and the
\* line end that print adds
ConsoleIsFileAndLineEnd ==
    write_result = "ok" => console = out_file.text \o <<"\n">>

\* C7: a component whose top-level input is not a sequence appends exactly
\* one error, none of an entry, and returns its empty result: an empty table,
\* (0.0, 0), an empty sequence
C7_NotASequence ==
    /\ (pc = "bpm_return" /\ ~IsList(catalogue_data)) =>
            /\ price_map = EmptyMap
            /\ AppendedSince(mark.bpm) =
                    <<TopErr("catalogue", "must be a JSON array of products.")>>
    /\ (pc = "cst_return" /\ ~IsList(items)) =>
            /\ total = FFin(0)
            /\ item_count = 0
            /\ AppendedSince(mark.cst) = <<SaleErr(sale_index, "'items' must be an array.")>>
    /\ (pc = "cas_return" /\ ~IsList(sales_data)) =>
            /\ results = <<>>
            /\ AppendedSince(mark.cas) =
                    <<TopErr("sale", "Sales record must be a JSON array of sales.")>>

\* compute_all_sales returns from a sales input that is no sequence, after
\* the catalogue left errors of its own
C7_Witness ==
    /\ pc = "cas_return"
    /\ ~IsList(sales_data)
    /\ mark.cas >= 1
    /\ Len(errors) = mark.cas + 1
    /\ results = <<>>

IsPrefix(a, b) == Len(a) <= Len(b) /\ SubSeq(b, 1, Len(a)) = a

\* the order of processing: the catalogue before the sales, then by sale,
\* then by item
Before(e1, e2) ==
    \/ e1.scope = "catalogue" /\ e2.scope = "sale"
    \/ /\ e1.scope = e2.scope
       /\ \/ e1.idx < e2.idx
          \/ e1.idx = e2.idx /\ e1.item < e2.item

InProcessingOrder(errs) ==
    \A i, j \in 1..Len(errs) : i < j => Before(errs[i], errs[j])

\* C8: the error list is append-only, every step keeps what it held as a
\* prefix, and its order is the order of processing
C8_AppendOnly ==
    [][IsPrefix(errors, errors') /\ InProcessingOrder(errors')]_vars

\* a run that recorded an error of the catalogue, two item errors of one
\* sale and an error of a later sale
C8_Witness ==
    /\ Len(errors) >= 4
    /\ errors[1].scope = "catalogue"
    /\ \E i, j, n \in 1..Len(errors) :
          /\ i < j /\ j < n
          /\ errors[i].scope = "sale" /\ errors[i].item = 0
          /\ errors[j].idx = errors[i].idx /\ errors[j].item = 1
          /\ errors[n].idx > errors[j].idx

====
